---------------------------- MODULE Spec2Model ----------------------------
(* A model of src/audit.py: deep_structure_audit(file_path), a sequential  *)
(* batch job that loads a table, runs four analyses and prints a report.   *)
(*                                                                         *)
(* Numbers.  R_functional / outcome_lagged cells are small integers; a     *)
(* missing cell (NaN) is the empty tuple <<>> and a present cell v is <<v>>.*)
(* A timestamp is an integer count of hours, so that .dt.hour is ts % 24.  *)
(* A Pearson coefficient r = Sxy / sqrt(Sxx*Syy) is kept exactly as the    *)
(* record [nan, s, d] with s = Sxy and d = Sxx*Syy (r = s / sqrt(d)); it   *)
(* is NaN when an input is constant, as scipy.stats.pearsonr returns.      *)
(* Floating-point rounding is not modelled.                                *)
EXTENDS Integers, Sequences, FiniteSets

VARIABLES
    file,             \* the input: what is at file_path
    pc,               \* position in deep_structure_audit
    df,               \* the data frame (sequence of rows)
    h,                \* loop variable of `for h in range(24)`
    circadian_corrs,  \* list of collected coefficients
    mean_circ_corr,   \* np.mean(circadian_corrs)
    max_phase,        \* np.argmax(circadian_corrs)
    v_df,             \* rows kept by dropna on the velocity columns
    v_corr,           \* velocity correlation
    slope,            \* fitted spectral slope
    exc,              \* the exception that escaped the function, if any
    out               \* what has been printed, in order

vars == <<file, pc, df, h, circadian_corrs, mean_circ_corr, max_phase,
          v_df, v_corr, slope, exc, out>>

-----------------------------------------------------------------------------
(* Program constants *)

NumHours == 24
Threshold == 10
HardCodedRecords == 9601

(* Bounds of the model *)

MaxRows == 12        \* largest number of rows in one hour bucket
SlopeUnit == 10      \* slopes are multiples of 1/SlopeUnit

-----------------------------------------------------------------------------
(* Cells, sequences *)

NA == <<>>
Cell(v) == <<v>>
IsNA(c) == c = NA
Val(c) == c[1]

Abs(x) == IF x < 0 THEN -x ELSE x
Max2(a, b) == IF a >= b THEN a ELSE b

RECURSIVE SumSeq(_)
SumSeq(s) == IF s = <<>> THEN 0 ELSE Head(s) + SumSeq(Tail(s))

Dot(xs, ys) == SumSeq([i \in 1..Len(xs) |-> xs[i] * ys[i]])

-----------------------------------------------------------------------------
(* The inputs: what pd.read_csv finds at file_path.                        *)
(* A well-formed file holds the rows of two hour-of-day buckets, sampled   *)
(* once per day and stored in chronological order.  A bucket has n rows    *)
(* (days 0..n-1), a shape giving its two columns, and may miss one or both *)
(* values of its day-1 row.                                                *)

Shapes == {"same", "flat", "mixed"}

ShapeR(shape, k) ==
    CASE shape = "same"  -> k % 2
      [] shape = "flat"  -> 1
      [] shape = "mixed" -> k % 3

ShapeO(shape, k) ==
    CASE shape = "same"  -> k % 2
      [] shape = "flat"  -> 1
      [] shape = "mixed" -> k % 2

BucketSizes == {0} \cup (Threshold .. MaxRows)
Missing == {"none", "R", "O", "both"}
HourPairs == {<<0, 1>>, <<1, 23>>}

BucketSpecs(hour) ==
    {[hour |-> hour, n |-> 0, shape |-> "flat", missing |-> "none"]} \cup
    [hour : {hour}, n : BucketSizes \ {0}, shape : Shapes, missing : Missing]

InputRow(b, k) ==
    [timestamp |-> k * 24 + b.hour,
     R_functional |-> IF k = 1 /\ b.missing \in {"R", "both"} THEN NA ELSE Cell(ShapeR(b.shape, k)),
     outcome_lagged |-> IF k = 1 /\ b.missing \in {"O", "both"} THEN NA ELSE Cell(ShapeO(b.shape, k))]

RECURSIVE InputRows(_, _, _)
InputRows(b1, b2, k) ==
    IF k >= Max2(b1.n, b2.n) THEN <<>>
    ELSE (IF k < b1.n THEN <<InputRow(b1, k)>> ELSE <<>>)
         \o (IF k < b2.n THEN <<InputRow(b2, k)>> ELSE <<>>)
         \o InputRows(b1, b2, k + 1)

GoodFile(b1, b2) == [kind |-> "ok", rows |-> InputRows(b1, b2, 0)]

BadFiles ==
    {[kind |-> k, rows |-> <<>>] : k \in {"missing", "malformed", "no_timestamp"}}

\* f is a file the run may be given
IsInputFile(f) ==
    \/ f \in BadFiles
    \/ \E p \in HourPairs :
         \E b1 \in BucketSpecs(p[1]), b2 \in BucketSpecs(p[2]) : f = GoodFile(b1, b2)


-----------------------------------------------------------------------------
(* pandas / numpy / scipy operations as the script uses them *)

\* pd.read_csv: the rows in file order, labelled by a RangeIndex 0..N-1;
\* pd.to_datetime leaves the (integer-hour) timestamps as they are.
ReadCsv(f) ==
    [i \in 1..Len(f.rows) |->
        [index |-> i - 1,
         timestamp |-> f.rows[i].timestamp,
         R_functional |-> f.rows[i].R_functional,
         outcome_lagged |-> f.rows[i].outcome_lagged]]

\* variant: only a missing file is treated as a load failure
LoadRaisesOnlyIfMissing(f) == f.kind = "missing"

\* read_csv or to_datetime raises
LoadRaises(f) == f.kind # "ok"

\* df['hour'] = df['timestamp'].dt.hour
WithHour(d) ==
    [i \in 1..Len(d) |->
        [index |-> d[i].index,
         timestamp |-> d[i].timestamp,
         R_functional |-> d[i].R_functional,
         outcome_lagged |-> d[i].outcome_lagged,
         hour |-> d[i].timestamp % 24]]

\* df[df['hour'] == hh]
HourSubset(d, hh) == SelectSeq(d, LAMBDA r : r.hour = hh)

\* rows.dropna(subset=[c1, c2])
DropNA(rows, c1, c2) == SelectSeq(rows, LAMBDA r : ~IsNA(r[c1]) /\ ~IsNA(r[c2]))

\* the values of a column without missing cells
Values(rows, c) == [i \in 1..Len(rows) |-> Val(rows[i][c])]

\* variant: Series.diff(-1), row i minus row i+1
DiffBackward(d, c) ==
    [i \in 1..Len(d) |->
        IF i = Len(d) \/ IsNA(d[i][c]) \/ IsNA(d[i + 1][c]) THEN NA
        ELSE Cell(Val(d[i][c]) - Val(d[i + 1][c]))]

\* Series.diff(): row i minus row i-1 in row order; missing for the first
\* row and wherever either operand is missing
Diff(d, c) ==
    [i \in 1..Len(d) |->
        IF i = 1 \/ IsNA(d[i][c]) \/ IsNA(d[i - 1][c]) THEN NA
        ELSE Cell(Val(d[i][c]) - Val(d[i - 1][c]))]

\* df['R_velocity'] = ...; df['outcome_velocity'] = ...
WithVelocity(d) ==
    [i \in 1..Len(d) |->
        [index |-> d[i].index,
         timestamp |-> d[i].timestamp,
         R_functional |-> d[i].R_functional,
         outcome_lagged |-> d[i].outcome_lagged,
         hour |-> d[i].hour,
         R_velocity |-> Diff(d, "R_functional")[i],
         outcome_velocity |-> Diff(d, "outcome_lagged")[i]]]

\* variant: `len(...) >= 10`
AtLeastTen(rows) == Len(rows) >= Threshold

\* the `len(...) > 10` tests of the circadian loop
MoreThanTen(rows) == Len(rows) > Threshold

NaN == [nan |-> TRUE, s |-> 0, d |-> 1]

\* scipy.stats.pearsonr raises ValueError for fewer than 2 points
PearsonRaises(xs) == Len(xs) < 2

\* scipy.stats.pearsonr(xs, ys)[0] for Len(xs) = Len(ys) >= 2
Pearson(xs, ys) ==
    LET n   == Len(xs)
        sxx == n * Dot(xs, xs) - SumSeq(xs) * SumSeq(xs)
        syy == n * Dot(ys, ys) - SumSeq(ys) * SumSeq(ys)
        sxy == n * Dot(xs, ys) - SumSeq(xs) * SumSeq(ys)
    IN  IF sxx = 0 \/ syy = 0 THEN NaN
        ELSE [nan |-> FALSE, s |-> sxy, d |-> sxx * syy]

\* a > b for two coefficients that are numbers: compare sign(s)*s^2/d
Greater(a, b) == a.s * Abs(a.s) * b.d > b.s * Abs(b.s) * a.d

\* the coefficient is exactly 1
IsOne(c) == ~c.nan /\ c.s > 0 /\ c.s * c.s = c.d

\* np.argmax over a non-empty list: scan left to right, move to a strictly
\* greater element or to a NaN, and stop at the first NaN
RECURSIVE ArgMaxScan(_, _, _)
ArgMaxScan(cs, i, best) ==
    IF i > Len(cs) \/ cs[best].nan THEN best - 1
    ELSE IF cs[i].nan \/ Greater(cs[i], cs[best]) THEN ArgMaxScan(cs, i + 1, i)
    ELSE ArgMaxScan(cs, i + 1, best)

\* variant: a one-based position
ArgMaxOneBased(cs) == ArgMaxScan(cs, 2, 1) + 1

ArgMax(cs) == ArgMaxScan(cs, 2, 1)

\* variant: an argmax that returns 0 for an empty sequence
ArgMaxNeverRaises(cs) == FALSE

\* np.argmax raises ValueError on an empty sequence
ArgMaxRaises(cs) == cs = <<>>

\* np.mean: NaN (with a warning, no exception) for an empty list, otherwise
\* the sum of the terms over their number, kept symbolically
Mean(cs) == [nan |-> cs = <<>> \/ \E i \in 1..Len(cs) : cs[i].nan,
             terms |-> cs, count |-> Len(cs)]

\* welch + log10 + polyfit are library numerics outside the model: the
\* fitted slope is any multiple of 1/SlopeUnit around -1.0, or NaN
SlopeOutcomes ==
    {[nan |-> TRUE, units |-> 0]} \cup
    {[nan |-> FALSE, units |-> u] :
        u \in {-2 * SlopeUnit, -SlopeUnit - 1, -SlopeUnit, -SlopeUnit + 1, 0}}

\* variant: slope <= -1.0
AtMostMinusOne(sl) == ~sl.nan /\ sl.units <= -SlopeUnit

\* slope < -1.0
BelowMinusOne(sl) == ~sl.nan /\ sl.units < -SlopeUnit

StatusLabel(sl) == IF BelowMinusOne(sl) THEN "SOC" ELSE "power-law"

-----------------------------------------------------------------------------
(* The run *)

None == [nan |-> TRUE, s |-> 0, d |-> 0]

Init ==
    /\ IsInputFile(file)
    /\ pc = "start"
    /\ df = <<>>
    /\ h = 0
    /\ circadian_corrs = <<>>
    /\ mean_circ_corr = Mean(<<>>)
    /\ max_phase = -1
    /\ v_df = <<>>
    /\ v_corr = None
    /\ slope = [nan |-> TRUE, units |-> 0]
    /\ exc = "none"
    /\ out = <<>>

\* line 12
Banner ==
    /\ pc = "start"
    /\ out' = Append(out, [sec |-> "banner"])
    /\ pc' = "load"
    /\ UNCHANGED <<exc, file, df, h, circadian_corrs, mean_circ_corr, max_phase,
                   v_df, v_corr, slope>>

\* lines 15-17, no exception
LoadOk ==
    /\ pc = "load"
    /\ ~LoadRaises(file)
    /\ df' = ReadCsv(file)
    /\ pc' = "hour"
    /\ UNCHANGED <<exc, file, h, circadian_corrs, mean_circ_corr, max_phase,
                   v_df, v_corr, slope, out>>

\* lines 18-20: the exception is caught, reported, and the function returns
LoadError ==
    /\ pc = "load"
    /\ LoadRaises(file)
    /\ out' = Append(out, [sec |-> "error", cause |-> file.kind])
    /\ pc' = "returned"
    /\ UNCHANGED <<exc, file, df, h, circadian_corrs, mean_circ_corr, max_phase,
                   v_df, v_corr, slope>>

\* lines 23-24
DeriveHour ==
    /\ pc = "hour"
    /\ df' = WithHour(df)
    /\ circadian_corrs' = <<>>
    /\ h' = 0
    /\ pc' = "loop"
    /\ UNCHANGED <<exc, file, mean_circ_corr, max_phase, v_df, v_corr, slope, out>>

\* lines 26-33: one iteration of the loop
LoopIter ==
    /\ pc = "loop"
    /\ LET subset == HourSubset(df, h)
           valid  == DropNA(subset, "R_functional", "outcome_lagged")
       IN  circadian_corrs' =
             IF MoreThanTen(subset) /\ MoreThanTen(valid)
             THEN Append(circadian_corrs,
                         Pearson(Values(valid, "R_functional"),
                                 Values(valid, "outcome_lagged")))
             ELSE circadian_corrs
    /\ IF h + 1 < NumHours
       THEN h' = h + 1 /\ pc' = "loop"
       ELSE h' = h /\ pc' = "mean"
    /\ UNCHANGED <<exc, file, df, mean_circ_corr, max_phase, v_df, v_corr, slope, out>>

\* line 35
MeanStep ==
    /\ pc = "mean"
    /\ mean_circ_corr' = Mean(circadian_corrs)
    /\ pc' = "argmax"
    /\ UNCHANGED <<exc, file, df, h, circadian_corrs, max_phase, v_df, v_corr, slope, out>>

\* line 36: np.argmax raises ValueError on an empty list
ArgMaxStep ==
    /\ pc = "argmax"
    /\ IF ArgMaxRaises(circadian_corrs)
       THEN pc' = "raised" /\ exc' = "ValueError: argmax of an empty sequence"
            /\ UNCHANGED max_phase
       ELSE pc' = "print1" /\ max_phase' = ArgMax(circadian_corrs) /\ UNCHANGED exc
    /\ UNCHANGED <<file, df, h, circadian_corrs, mean_circ_corr, v_df, v_corr, slope, out>>

\* lines 38-41
Print1 ==
    /\ pc = "print1"
    /\ out' = Append(out, [sec |-> "1", mean |-> mean_circ_corr, peak_hour |-> max_phase])
    /\ pc' = "diff"
    /\ UNCHANGED <<exc, file, df, h, circadian_corrs, mean_circ_corr, max_phase,
                   v_df, v_corr, slope>>

\* lines 45-48
Velocity ==
    /\ pc = "diff"
    /\ df' = WithVelocity(df)
    /\ v_df' = DropNA(WithVelocity(df), "R_velocity", "outcome_velocity")
    /\ pc' = "vcorr"
    /\ UNCHANGED <<exc, file, h, circadian_corrs, mean_circ_corr, max_phase, v_corr, slope, out>>

\* variant: correlates R_velocity with the outcome level, not its velocity
VCorrOnLevels ==
    /\ pc = "vcorr"
    /\ IF PearsonRaises(v_df)
       THEN pc' = "raised" /\ exc' = "ValueError: pearsonr needs 2 points"
            /\ UNCHANGED v_corr
       ELSE /\ pc' = "print2"
            /\ UNCHANGED exc
            /\ v_corr' = Pearson(Values(v_df, "R_velocity"),
                                 Values(v_df, "outcome_lagged"))
    /\ UNCHANGED <<file, df, h, circadian_corrs, mean_circ_corr, max_phase,
                   v_df, slope, out>>

\* line 49
VCorr ==
    /\ pc = "vcorr"
    /\ IF PearsonRaises(v_df)
       THEN pc' = "raised" /\ exc' = "ValueError: pearsonr needs 2 points"
            /\ UNCHANGED v_corr
       ELSE /\ pc' = "print2"
            /\ UNCHANGED exc
            /\ v_corr' = Pearson(Values(v_df, "R_velocity"),
                                 Values(v_df, "outcome_velocity"))
    /\ UNCHANGED <<file, df, h, circadian_corrs, mean_circ_corr, max_phase,
                   v_df, slope, out>>

\* lines 51-54
Print2 ==
    /\ pc = "print2"
    /\ out' = Append(out, [sec |-> "2", rv |-> v_corr])
    /\ pc' = "psd"
    /\ UNCHANGED <<exc, file, df, h, circadian_corrs, mean_circ_corr, max_phase,
                   v_df, v_corr, slope>>

\* lines 58-64
Psd ==
    /\ pc = "psd"
    /\ slope' \in SlopeOutcomes
    /\ pc' = "print3"
    /\ UNCHANGED <<exc, file, df, h, circadian_corrs, mean_circ_corr, max_phase,
                   v_df, v_corr, out>>

\* variant: returns after section [3]
Print3ThenReturn ==
    /\ pc = "print3"
    /\ out' = Append(out, [sec |-> "3", slope |-> slope, status |-> StatusLabel(slope)])
    /\ pc' = "returned"
    /\ UNCHANGED <<exc, file, df, h, circadian_corrs, mean_circ_corr, max_phase,
                   v_df, v_corr, slope>>

\* lines 66-71
Print3 ==
    /\ pc = "print3"
    /\ out' = Append(out, [sec |-> "3", slope |-> slope, status |-> StatusLabel(slope)])
    /\ pc' = "print4"
    /\ UNCHANGED <<exc, file, df, h, circadian_corrs, mean_circ_corr, max_phase,
                   v_df, v_corr, slope>>

\* lines 74-76
Print4 ==
    /\ pc = "print4"
    /\ out' = Append(out, [sec |-> "4", records |-> HardCodedRecords, rv |-> v_corr])
    /\ pc' = "returned"
    /\ UNCHANGED <<exc, file, df, h, circadian_corrs, mean_circ_corr, max_phase,
                   v_df, v_corr, slope>>

Next ==
    \/ Banner
    \/ LoadOk
    \/ LoadError
    \/ DeriveHour
    \/ LoopIter
    \/ MeanStep
    \/ ArgMaxStep
    \/ Print1
    \/ Velocity
    \/ VCorr
    \/ Print2
    \/ Psd
    \/ Print3
    \/ Print4

Spec == Init /\ [][Next]_vars

TypeOK ==
    /\ pc \in {"start", "load", "hour", "loop", "mean", "argmax", "print1", "diff",
               "vcorr", "print2", "psd", "print3", "print4", "returned", "raised"}
    /\ h \in 0..(NumHours - 1)
    /\ Len(circadian_corrs) <= NumHours

-----------------------------------------------------------------------------
(* What the claims speak about, stated over the input file and the output  *)

Sections == [i \in 1..Len(out) |-> out[i].sec]
Printed(sec) == {i \in 1..Len(out) : out[i].sec = sec}
IsPrefix(s, t) == Len(s) <= Len(t) /\ \A i \in 1..Len(s) : s[i] = t[i]

Loaded == file.kind = "ok"
N == Len(file.rows)

\* the rows of the file whose timestamp falls in hour hh, and those of them
\* with both values present
FileHourRows(hh) == SelectSeq(file.rows, LAMBDA r : r.timestamp % 24 = hh)
FileValidRows(hh) ==
    SelectSeq(FileHourRows(hh), LAMBDA r : r.R_functional # NA /\ r.outcome_lagged # NA)

IsQualifying(hh) == Len(FileHourRows(hh)) > 10 /\ Len(FileValidRows(hh)) > 10

Qualifying == {hh \in 0..23 : IsQualifying(hh)}
NoneQualifies == \A hh \in 0..23 : ~IsQualifying(hh)

CoefOfHour(hh) ==
    LET v == FileValidRows(hh)
    IN  Pearson([i \in 1..Len(v) |-> v[i].R_functional[1]],
                [i \in 1..Len(v) |-> v[i].outcome_lagged[1]])

\* the qualifying hours in ascending order, and their coefficients
QualifyingHours == SelectSeq([k \in 1..24 |-> k - 1], LAMBDA hh : IsQualifying(hh))

\* a >= b as real numbers (false when either is NaN)
Geq(a, b) == ~a.nan /\ ~b.nan /\ ~Greater(b, a)

AfterLoop == pc \in {"mean", "argmax", "print1", "diff", "vcorr", "print2", "psd",
                     "print3", "print4"} \/ (pc = "returned" /\ Loaded)
                     \/ pc = "raised"
PeakComputed == pc \in {"print1", "diff", "vcorr", "print2", "psd", "print3", "print4"}
                \/ (pc = "returned" /\ Loaded)
                \/ (pc = "raised" /\ max_phase >= 0)
VelocityTaken == pc \in {"vcorr", "print2", "psd", "print3", "print4"}
                 \/ (pc = "returned" /\ Loaded)
VCorrComputed == pc \in {"print2", "psd", "print3", "print4"}
                 \/ (pc = "returned" /\ Loaded)

-----------------------------------------------------------------------------
(* C1: when the load step fails, exactly one error diagnostic is printed,  *)
(* the function returns normally (no exception escapes) and none of the    *)
(* four analyses runs: no section [1]..[4] output is ever emitted.         *)
C1_LoadFailureAborts ==
    ~Loaded =>
        /\ pc \in {"start", "load", "returned"}
        /\ exc = "none"
        /\ IsPrefix(Sections, <<"banner", "error">>)
        /\ (pc = "returned" => Sections = <<"banner", "error">>)
        /\ circadian_corrs = <<>> /\ max_phase = -1 /\ v_df = <<>> /\ df = <<>>

C1_Witness == file.kind = "no_timestamp" /\ pc = "returned" /\ Printed("error") # {}

(* C2: the hour printed in section [1] is the hour-of-day of the           *)
(* qualifying bucket whose coefficient is the largest (the first NaN       *)
(* counting as largest, as np.argmax over the per-hour coefficients does). *)
IsPeakHour(hh) ==
    /\ hh \in Qualifying
    /\ IF \E g \in Qualifying : CoefOfHour(g).nan
       THEN CoefOfHour(hh).nan /\ \A g \in Qualifying : g < hh => ~CoefOfHour(g).nan
       ELSE \A g \in Qualifying : Geq(CoefOfHour(hh), CoefOfHour(g))

C2_PrintedPeakIsHourOfMax ==
    \A i \in Printed("1") : IsPeakHour(out[i].peak_hour)

(* C3: the record count restated in section [4] equals the number of rows  *)
(* loaded.                                                                 *)
C3_RecordCountIsRowCount ==
    \A i \in Printed("4") : out[i].records = N

(* C4: when the file loads but no hour bucket qualifies, the collected     *)
(* list is empty and the run ends in an unhandled failure at the           *)
(* mean/argmax step: no load-error diagnostic, no section [1] result, and  *)
(* sections [2], [3], [4] are never reached.                               *)
C4_NoQualifyingBucketFails ==
    (Loaded /\ NoneQualifies) =>
        /\ pc \in {"start", "load", "hour", "loop", "mean", "argmax", "raised"}
        /\ IsPrefix(Sections, <<"banner">>)
        /\ (AfterLoop => circadian_corrs = <<>>)
        /\ (pc = "argmax" => mean_circ_corr.nan /\ mean_circ_corr.count = 0)
        /\ (pc = "raised" => exc = "ValueError: argmax of an empty sequence")
        /\ max_phase = -1 /\ v_df = <<>>

C4_Witness == Loaded /\ N > Threshold /\ NoneQualifies /\ pc = "raised"

(* C5 as stated: whenever outcome_lagged is identical to R_functional row  *)
(* for row, the velocity correlation computed in section [2] equals 1.0.   *)
Identical ==
    Loaded /\ \A i \in 1..N : file.rows[i].outcome_lagged = file.rows[i].R_functional
NoMissing ==
    Loaded /\ \A i \in 1..N : file.rows[i].R_functional # NA /\ file.rows[i].outcome_lagged # NA

\* rows whose two differences are both present
IsKept(i) ==
    /\ file.rows[i].R_functional # NA /\ file.rows[i - 1].R_functional # NA
    /\ file.rows[i].outcome_lagged # NA /\ file.rows[i - 1].outcome_lagged # NA

KeptRows == {i \in 2..N : IsKept(i)}

\* the first differences of R_functional that are kept are not all equal
VelocityVaries ==
    \E i, j \in KeptRows :
        file.rows[i].R_functional[1] - file.rows[i - 1].R_functional[1]
            # file.rows[j].R_functional[1] - file.rows[j - 1].R_functional[1]

C5_IdenticalColumnsGiveOne ==
    (Identical /\ VCorrComputed) => IsOne(v_corr)

(* C5 amended: for identical columns, the velocity correlation computed   *)
(* in section [2] is 1.0 when the first differences it is computed over    *)
(* are not all equal, and is NaN (undefined) when they are all equal.      *)
C5_IdenticalVaryingGiveOne ==
    (Identical /\ VCorrComputed) =>
        IF VelocityVaries THEN IsOne(v_corr) ELSE v_corr.nan

C5_Witness ==
    Identical /\ ~NoMissing /\ VelocityVaries /\ pc = "print2" /\ IsOne(v_corr)

(* C6: in every run that reaches section [3] exactly one status label is   *)
(* printed: the SOC label iff the fitted slope is strictly below -1.0, the *)
(* power-law label otherwise, including a slope exactly equal to -1.0.     *)
C6_StatusMatchesThreshold ==
    /\ Cardinality(Printed("3")) <= 1
    /\ ((pc = "print4" \/ Printed("4") # {}) => Cardinality(Printed("3")) = 1)
    /\ \A i \in Printed("3") :
        /\ out[i].slope = slope
        /\ out[i].status \in {"SOC", "power-law"}
        /\ ((out[i].status = "SOC") <=> (~slope.nan /\ slope.units < -SlopeUnit))
        /\ ((~slope.nan /\ slope.units = -SlopeUnit) => out[i].status = "power-law")

C6_Witness ==
    \E i \in Printed("3") :
        ~out[i].slope.nan /\ out[i].slope.units = -SlopeUnit /\ out[i].status = "power-law"

(* C7: output is emitted in the fixed order banner, [1], [2], [3], [4]:    *)
(* no section before its predecessor, each at most once, a section only    *)
(* after its own analysis and all earlier ones have completed, and a run   *)
(* that completes without failure prints all four.                         *)
FullReport == <<"banner", "1", "2", "3", "4">>

C7_FixedOrder ==
    Loaded =>
        /\ IsPrefix(Sections, FullReport)
        /\ (Printed("1") # {} =>
               PeakComputed /\ max_phase >= 0 /\ mean_circ_corr.count > 0)
        /\ (Printed("2") # {} => VCorrComputed /\ v_corr.d > 0)
        /\ (Printed("3") # {} => pc \in {"print4", "returned"})
        /\ (Printed("4") # {} => pc = "returned")
        /\ (pc = "returned" => Sections = FullReport /\ exc = "none")
        /\ (pc = "raised" => exc # "none" /\ Len(Sections) < Len(FullReport))

C7_Witness == Loaded /\ pc = "returned" /\ Sections = FullReport

(* C8: after the circadian loop the collected list holds exactly one       *)
(* coefficient per hour 0..23 whose bucket has more than 10 records and    *)
(* more than 10 records with both values present, in ascending hour order; *)
(* every other bucket contributes nothing; the length is at most 24.       *)
C8_CollectedAreQualifying ==
    (Loaded /\ AfterLoop) =>
        LET q == QualifyingHours
        IN  /\ circadian_corrs = [k \in 1..Len(q) |-> CoefOfHour(q[k])]
            /\ Len(circadian_corrs) = Cardinality({q[k] : k \in 1..Len(q)})
            /\ Len(circadian_corrs) <= 24

C8_Witness ==
    /\ Loaded /\ pc = "mean"
    /\ \E hh \in 0..23 : Len(FileHourRows(hh)) = 11 /\ Len(FileValidRows(hh)) = 10
    /\ \E hh \in 0..23 : Len(FileHourRows(hh)) = 12 /\ Len(FileValidRows(hh)) = 11
    /\ Len(circadian_corrs) = 1

(* C9 as stated: the reported peak is a position in the collected list,    *)
(* within 0..(number collected - 1), and the coefficient there is greater  *)
(* than or equal to every other collected coefficient.                     *)
C9_PeakIsPositionOfMax ==
    (Loaded /\ PeakComputed) =>
        /\ max_phase \in 0..(Len(circadian_corrs) - 1)
        /\ \A j \in 1..Len(circadian_corrs) :
               Geq(circadian_corrs[max_phase + 1], circadian_corrs[j])

(* C9 amended: the reported peak is a position in the collected list,      *)
(* within 0..(number collected - 1); when no collected coefficient is NaN  *)
(* the coefficient there is >= every other one, and when some coefficient  *)
(* is NaN (a bucket with a constant column) it is the first NaN's position.*)
C9_PeakIsPositionOfMaxOrNaN ==
    (Loaded /\ PeakComputed) =>
        /\ max_phase \in 0..(Len(circadian_corrs) - 1)
        /\ Len(circadian_corrs) = Len(QualifyingHours)
        /\ IF \E j \in 1..Len(circadian_corrs) : circadian_corrs[j].nan
           THEN /\ circadian_corrs[max_phase + 1].nan
                /\ \A j \in 1..max_phase : ~circadian_corrs[j].nan
           ELSE \A j \in 1..Len(circadian_corrs) :
                    Geq(circadian_corrs[max_phase + 1], circadian_corrs[j])
        /\ \A i \in Printed("1") : out[i].peak_hour = max_phase

C9_Witness ==
    /\ Loaded /\ pc = "print1" /\ Len(circadian_corrs) = 2 /\ max_phase = 1
    /\ ~circadian_corrs[1].nan /\ ~circadian_corrs[2].nan
    /\ Qualifying = {1, 23}

(* C10 as stated: the rows dropped for a missing difference are exactly    *)
(* the first row, so the velocity correlation is over exactly N-1 pairs.   *)
C10_OnlyFirstRowDropped ==
    (Loaded /\ VelocityTaken) =>
        /\ Len(v_df) = N - 1
        /\ \A k \in 1..Len(v_df) : v_df[k].index = k

(* C10 amended: differences are taken in original row order, and the rows  *)
(* dropped are the first row and every row where R_functional or           *)
(* outcome_lagged is missing in that row or in the row before it; the      *)
(* correlation is over the remaining pairs (R[i]-R[i-1], O[i]-O[i-1]),     *)
(* which are all N-1 pairs i = 2..N when no value is missing.              *)
ExpectedPairs ==
    LET kept == SelectSeq([k \in 1..(N - 1) |-> k + 1], LAMBDA i : IsKept(i))
    IN  [k \in 1..Len(kept) |->
            <<kept[k] - 1,
              file.rows[kept[k]].R_functional[1] - file.rows[kept[k] - 1].R_functional[1],
              file.rows[kept[k]].outcome_lagged[1]
                  - file.rows[kept[k] - 1].outcome_lagged[1]>>]

C10_VelocityPairs ==
    (Loaded /\ VelocityTaken) =>
        LET exp == ExpectedPairs
        IN  /\ [k \in 1..Len(v_df) |->
                   <<v_df[k].index, v_df[k].R_velocity[1], v_df[k].outcome_velocity[1]>>]
               = exp
            /\ (NoMissing => Len(v_df) = N - 1)
            /\ (VCorrComputed =>
                   v_corr = Pearson([k \in 1..Len(exp) |-> exp[k][2]],
                                    [k \in 1..Len(exp) |-> exp[k][3]]))

C10_Witness ==
    Loaded /\ pc = "print2" /\ ~NoMissing /\ Len(v_df) = N - 3 /\ Len(HourSubset(df, 23)) > 0

=============================================================================
